---- MODULE Spec2Model ----
(***************************************************************************)
(* Model of models.py: the Database singleton handle and the User record   *)
(* operations (create_user, set_otp, verify_otp, add_consultation,         *)
(* get_consultations, add_reminder, delete_reminder) over the users        *)
(* collection.  Every driver call (find_one, insert_one, update_one) is    *)
(* one atomic step; a User operation that issues several driver calls is   *)
(* several steps, so that callers running in parallel interleave between   *)
(* them.  Fields no operation modelled here reads or writes after creation *)
(* (name, password_hash, profile) are left out of the document.            *)
(***************************************************************************)
EXTENDS Integers, Sequences, FiniteSets, TLC

VARIABLES
    users,      \* the users collection, documents in insertion (natural) order
    now,        \* datetime.utcnow(), in minutes
    pc,         \* per caller: where it is inside a User operation
    loc,        \* per caller: arguments and local variables of its call
    ret,        \* per caller: what its last completed call returned or raised
    retList,    \* per caller: the list returned by get_consultations
    calls,      \* number of User operations started
    budget,     \* number of User operations the run may start
    active,     \* the callers that run
    accepted,   \* history: per set_otp write that reached a document (its issue
                \* number), how many verify_otp calls returned True on it
    okEmails,   \* history: emails for which some verify_otp returned True
    nAdd,       \* history, per email: add_reminder calls whose $push reached a document
    nDel,       \* history, per email: delete_reminder calls that returned True
    objects,    \* Database objects ever allocated: their client and db attributes
    instance,   \* Database._instance: 0 for None, else an index into objects
    dbpc,       \* where the caller of Database() is inside __new__
    attempts,   \* history: the connection attempts, each with the number of the
                \* construction that made it and its result
    returned,   \* history: the objects Database() has returned
    nNew,       \* history: number of Database() constructions started
    getRet,     \* result of the last Database.get_collection call
    nGet        \* history: number of Database.get_collection calls

vars == <<users, now, pc, loc, ret, retList, calls, budget, active, accepted,
          okEmails, objects, instance, dbpc, attempts, returned, nNew, getRet, nGet>>

userVars == <<users, now, pc, loc, ret, retList, calls, budget, active, accepted, okEmails, nAdd, nDel>>

dbVars == <<objects, instance, dbpc, attempts, returned, nNew, getRet, nGet>>

(***************************************************************************)
(* Bounds and program constants                                            *)
(***************************************************************************)
\* calls a run of create_user, set_otp and verify_otp starts
MaxCalls == 4

\* calls a run of the reminder operations starts
MaxRemCalls == 5

\* calls a run of the consultation operations starts
MaxConsCalls == 4

\* steps of the clock
MaxTicks == 2

\* Database() calls
MaxConstructions == 4

\* Database.get_collection calls
MaxGets == 4

\* timedelta(minutes=10)
OtpMinutes == 10

\* limit=10
DefaultLimit == 10

\* the clock moves in steps of half the validity of a code
TickMinutes == OtpMinutes \div 2

Procs == {"p1", "p2"}

\* the emails the callers of create_user, set_otp and verify_otp pass
AuthEmails == {"a"}

\* the emails the callers of the reminder and consultation operations pass
Emails == {"a", "b"}

Codes == {"c1", "c2"}

None == "None"

GoogleIds == {None, "g1"}

Reminders == {"r1", "r2"}

ConsData == {"x", "y"}

\* None where a datetime is expected
NoTime == -1

\* datetime.min, below every time of the clock
DatetimeMin == -2

Min(a, b) == IF a <= b THEN a ELSE b

Max(a, b) == IF a >= b THEN a ELSE b

(***************************************************************************)
(* Documents and the driver's single-document operations.  The field       *)
(* "issue" is history, not data: the number of the set_otp write that      *)
(* stored the document's current (or last) code, 0 before the first.       *)
(* has_reminders tells whether the field reminders is present.             *)
(***************************************************************************)
\* what find_one returns when no document matches: None
NoDoc ==
    [email |-> None, google_id |-> None, created_at |-> NoTime, verified |-> FALSE,
     otp |-> None, otp_expires |-> NoTime, issue |-> 0,
     consultations |-> <<>>, has_reminders |-> FALSE, reminders |-> <<>>]

\* user_data of create_user
NewUserDoc(email, google_id, created) ==
    [email |-> email, google_id |-> google_id, created_at |-> created,
     verified |-> (google_id # None),
     otp |-> None, otp_expires |-> NoTime, issue |-> 0,
     consultations |-> <<>>, has_reminders |-> FALSE, reminders |-> <<>>]

\* index of the first document the filter {'email': email} matches, 0 if none
FirstIdx(email) ==
    IF \E i \in 1..Len(users) : users[i].email = email
    THEN CHOOSE i \in 1..Len(users) :
            /\ users[i].email = email
            /\ \A j \in 1..(i - 1) : users[j].email # email
    ELSE 0

\* collection.find_one({'email': email})
find_by_email(email) ==
    IF FirstIdx(email) = 0 THEN NoDoc ELSE users[FirstIdx(email)]

\* collection.update_one({'email': email}, ...): the first match becomes doc
UpdateOne(email, doc) ==
    IF FirstIdx(email) = 0 THEN users ELSE [users EXCEPT ![FirstIdx(email)] = doc]

Loc0 ==
    [op |-> "none", email |-> None, code |-> None, google_id |-> None,
     idx |-> 0, data |-> None, user |-> NoDoc, list |-> <<>>,
     stamp |-> NoTime, late |-> FALSE]

\* User.get_collection(): Database() and get_collection('users')
Connected == instance # 0 /\ objects[instance].db = "db"

Idle(p) == p \in active /\ pc[p] = "idle"

MayStart(p) == Idle(p) /\ calls < budget /\ Connected

\* a call returns (or raises) r: its locals die; the name of the operation and the
\* history flag "late" are kept for the record
Finish(p, op, late, r) ==
    /\ pc' = [pc EXCEPT ![p] = "idle"]
    /\ ret' = [ret EXCEPT ![p] = r]
    /\ loc' = [loc EXCEPT ![p] = [Loc0 EXCEPT !.op = op, !.late = late]]

(***************************************************************************)
(* User.create_user                                                        *)
(***************************************************************************)
\* lines 87-109: the existence check and the construction of user_data
CreateFind(p, email, google_id) ==
    /\ MayStart(p)
    /\ calls' = calls + 1
    /\ IF FirstIdx(email) # 0
       THEN Finish(p, "create_user", FALSE, "None")
       ELSE /\ pc' = [pc EXCEPT ![p] = "create_insert"]
            /\ ret' = ret
            /\ loc' = [loc EXCEPT ![p] = [Loc0 EXCEPT !.op = "create_user",
                                           !.email = email, !.google_id = google_id,
                                           !.stamp = now]]
    /\ UNCHANGED <<users, now, retList, budget, active, accepted, okEmails, nAdd, nDel>>
    /\ UNCHANGED dbVars

\* lines 111-113: insert_one and the return of the inserted document
CreateInsert(p) ==
    /\ p \in active /\ pc[p] = "create_insert"
    /\ users' = Append(users, NewUserDoc(loc[p].email, loc[p].google_id, loc[p].stamp))
    /\ Finish(p, "create_user", FALSE, "doc")
    /\ UNCHANGED <<now, retList, calls, budget, active, accepted, okEmails, nAdd, nDel>>
    /\ UNCHANGED dbVars

(***************************************************************************)
(* User.set_otp                                                            *)
(***************************************************************************)
\* lines 132-134: otp_expires = utcnow() + 10 minutes
SetOtpStart(p, email, otp) ==
    /\ MayStart(p)
    /\ calls' = calls + 1
    /\ loc' = [loc EXCEPT ![p] = [Loc0 EXCEPT !.op = "set_otp", !.email = email,
                                   !.code = otp, !.stamp = now + OtpMinutes]]
    /\ pc' = [pc EXCEPT ![p] = "set_otp_update"]
    /\ UNCHANGED <<users, now, ret, retList, budget, active, accepted, okEmails, nAdd, nDel>>
    /\ UNCHANGED dbVars

\* the document update_one of set_otp writes
SetOtpDoc(d, otp, expires, issue) ==
    [d EXCEPT !.otp = otp, !.otp_expires = expires, !.issue = issue]

\* lines 136-142: update_one $set otp, otp_expires
SetOtpUpdate(p) ==
    /\ p \in active /\ pc[p] = "set_otp_update"
    /\ users' = UpdateOne(loc[p].email,
                          SetOtpDoc(find_by_email(loc[p].email), loc[p].code,
                                    loc[p].stamp, Len(accepted) + 1))
    /\ accepted' = IF FirstIdx(loc[p].email) # 0 THEN Append(accepted, 0) ELSE accepted
    /\ Finish(p, "set_otp", FALSE, "None")
    /\ UNCHANGED <<now, retList, calls, budget, active, okEmails, nAdd, nDel>>
    /\ UNCHANGED dbVars

(***************************************************************************)
(* User.verify_otp                                                         *)
(***************************************************************************)
\* lines 147-151: find_by_email and the "not user" return
VerifyFind(p, email, otp) ==
    /\ MayStart(p)
    /\ calls' = calls + 1
    /\ IF FirstIdx(email) = 0
       THEN Finish(p, "verify_otp", FALSE, "False")
       ELSE /\ pc' = [pc EXCEPT ![p] = "verify_check"]
            /\ ret' = ret
            /\ LET user == find_by_email(email) IN
               loc' = [loc EXCEPT ![p] = [Loc0 EXCEPT !.op = "verify_otp",
                          !.email = email, !.code = otp, !.user = user,
                          !.late = (user.issue # 0 /\ accepted[user.issue] >= 1)]]
    /\ UNCHANGED <<users, now, retList, budget, active, accepted, okEmails, nAdd, nDel>>
    /\ UNCHANGED dbVars

\* line 154: user.get('otp') == otp and user.get('otp_expires') > utcnow();
\* "raise" when the right operand is evaluated on otp_expires = None
OtpCheck(user, otp, t) ==
    IF user.otp = otp
    THEN IF user.otp_expires = NoTime
         THEN "raise"
         ELSE IF user.otp_expires > t THEN "pass" ELSE "fail"
    ELSE "fail"

\* line 154, and the return False of line 164
VerifyCheck(p) ==
    /\ p \in active /\ pc[p] = "verify_check"
    /\ LET c == OtpCheck(loc[p].user, loc[p].code, now) IN
       IF c = "pass"
       THEN /\ pc' = [pc EXCEPT ![p] = "verify_update"]
            /\ UNCHANGED <<ret, loc>>
       ELSE Finish(p, "verify_otp", loc[p].late,
                   IF c = "raise" THEN "TypeError" ELSE "False")
    /\ UNCHANGED <<users, now, retList, calls, budget, active, accepted, okEmails, nAdd, nDel>>
    /\ UNCHANGED dbVars

\* verify_otp that marks the user verified but leaves the code in place
VerifiedDocKeepsOtp(d) ==
    [d EXCEPT !.verified = TRUE]

\* verify_otp that clears the code but not its expiry
VerifiedDocKeepsExpiry(d) ==
    [d EXCEPT !.verified = TRUE, !.otp = None]

\* the document update_one of verify_otp writes
VerifiedDoc(d) ==
    [d EXCEPT !.verified = TRUE, !.otp = None, !.otp_expires = NoTime]

\* lines 155-163: update_one $set verified, otp, otp_expires; return True
VerifyUpdate(p) ==
    /\ p \in active /\ pc[p] = "verify_update"
    /\ users' = UpdateOne(loc[p].email, VerifiedDoc(find_by_email(loc[p].email)))
    /\ accepted' = [accepted EXCEPT ![loc[p].user.issue] = @ + 1]
    /\ okEmails' = okEmails \cup {loc[p].email}
    /\ Finish(p, "verify_otp", loc[p].late, "True")
    /\ UNCHANGED <<now, retList, calls, budget, active, nAdd, nDel>>
    /\ UNCHANGED dbVars

(***************************************************************************)
(* Environment: the clock, and calls on a handle whose connection failed   *)
(***************************************************************************)
Tick ==
    /\ now < MaxTicks * TickMinutes
    /\ now' = now + TickMinutes
    /\ UNCHANGED <<users, pc, loc, ret, retList, calls, budget, active, accepted, okEmails, nAdd, nDel>>
    /\ UNCHANGED dbVars

AuthOps == {"create_user", "set_otp", "verify_otp"}

ReminderOps == {"create_user", "add_reminder", "delete_reminder"}

ConsultationOps == {"create_user", "add_consultation", "get_consultations"}

\* lines 48-49 reached through User.get_collection(): every operation raises
\* before it reads or writes anything
RaiseNotConnected(p, op) ==
    /\ Idle(p) /\ calls < budget /\ ~Connected
    /\ calls' = calls + 1
    /\ Finish(p, op, FALSE, "NotConnected")
    /\ UNCHANGED <<users, now, retList, budget, active, accepted, okEmails, nAdd, nDel>>
    /\ UNCHANGED dbVars

(***************************************************************************)
(* Specifications of the User operations                                   *)
(***************************************************************************)
\* the handle after the first Database() returned: connected or degraded
InitHandle ==
    /\ \/ /\ objects = <<[client |-> "client", db |-> "db"]>>
          /\ attempts = <<[n |-> 1, result |-> "ok"]>>
       \/ /\ objects = <<[client |-> None, db |-> None]>>
          /\ attempts = <<[n |-> 1, result |-> "failed"]>>
    /\ instance = 1
    /\ dbpc = "idle"
    /\ returned = {1}
    /\ nNew = 1
    /\ getRet = [name |-> None, result |-> "none"]
    /\ nGet = 0

InitUsers ==
    /\ users = <<>>
    /\ now = 0
    /\ pc = [p \in Procs |-> "idle"]
    /\ loc = [p \in Procs |-> Loc0]
    /\ ret = [p \in Procs |-> "none"]
    /\ retList = [p \in Procs |-> <<>>]
    /\ calls = 0
    /\ accepted = <<>>
    /\ okEmails = {}
    /\ nAdd = [e \in Emails |-> 0]
    /\ nDel = [e \in Emails |-> 0]

InitAuth == InitUsers /\ InitHandle /\ active = Procs /\ budget = MaxCalls

NextAuth ==
    \/ \E p \in Procs, e \in AuthEmails, g \in GoogleIds : CreateFind(p, e, g)
    \/ \E p \in Procs : CreateInsert(p)
    \/ \E p \in Procs, e \in AuthEmails, c \in Codes : SetOtpStart(p, e, c)
    \/ \E p \in Procs : SetOtpUpdate(p)
    \/ \E p \in Procs, e \in AuthEmails, c \in Codes \cup {None} : VerifyFind(p, e, c)
    \/ \E p \in Procs : VerifyCheck(p)
    \/ \E p \in Procs : VerifyUpdate(p)
    \/ \E p \in Procs, op \in AuthOps : RaiseNotConnected(p, op)
    \/ Tick

SpecAuth == InitAuth /\ [][NextAuth]_vars

(***************************************************************************)
(* Claims about create_user, set_otp and verify_otp (SpecAuth)             *)
(***************************************************************************)
\* C1: in every reachable state the users collection holds at most one document
\* per email address, also when create_user calls for one email interleave.
C1_OneDocumentPerEmail ==
    \A i, j \in 1..Len(users) : users[i].email = users[j].email => i = j

\* caller p returns from verify_otp in this step
VerifyReturns(p) ==
    /\ pc[p] \in {"verify_check", "verify_update"}
    /\ pc'[p] = "idle"

\* C2: a verify_otp with the issued code whose check runs before the expiry goes on
\* to the update and returns True with the code cleared; a verify_otp with a
\* code that starts after a verify_otp returned True on the stored issue, with
\* no set_otp in between, returns False.
C2_IssuedCodeAcceptedThenRejected ==
    [][\A p \in Procs :
        /\ ( /\ pc[p] = "verify_check" /\ pc'[p] # "verify_check"
             /\ loc[p].code \in Codes /\ loc[p].user.otp = loc[p].code
             /\ now < loc[p].user.otp_expires )
           => pc'[p] = "verify_update"
        /\ (pc[p] = "verify_update" /\ pc'[p] = "idle")
           => /\ ret'[p] = "True"
              /\ users'[FirstIdx(loc[p].email)].otp = None
        /\ (VerifyReturns(p) /\ loc[p].late /\ loc[p].code \in Codes)
           => ret'[p] = "False"
      ]_vars

\* C2 witness: a verify_otp that started after the stored issue had been accepted
\* has returned False.
C2_Witness ==
    \E p \in Procs :
        /\ pc[p] = "idle" /\ loc[p].op = "verify_otp" /\ loc[p].late
        /\ ret[p] = "False"
        /\ \E i \in 1..Len(accepted) : accepted[i] = 1

\* caller p returns from verify_otp in this step without success, in one of the
\* cases: no user, no code stored, another code, expired
VerifyFails(p) ==
    /\ pc'[p] = "idle" /\ loc'[p].op = "verify_otp"
    /\ \/ pc[p] = "verify_check"
       \/ pc[p] = "idle" /\ calls' = calls + 1 /\ Connected

\* C3: every verify_otp call that does not succeed returns False and leaves every
\* document unchanged.
C3_FailedVerifyReturnsFalse ==
    [][\A p \in Procs : VerifyFails(p) => (ret'[p] = "False" /\ users' = users)]_vars

\* C4: every interleaving of set_otp and verify_otp calls is equivalent to a
\* sequential order of them; in particular one issued code is never accepted by
\* two verify_otp calls.
C4_IssueAcceptedAtMostOnce ==
    \A i \in 1..Len(accepted) : accepted[i] <= 1

\* C6: a document is verified exactly if it was created with a google_id or some
\* verify_otp for its email has returned True.
C6_VerifiedIffFederatedOrOtp ==
    \A i \in 1..Len(users) :
        users[i].verified <=> (users[i].google_id # None \/ users[i].email \in okEmails)

\* C10: in every state each document has otp and otp_expires both null or both
\* non-null.
C10_OtpAndExpiryTogether ==
    \A i \in 1..Len(users) : (users[i].otp = None) <=> (users[i].otp_expires = NoTime)

\* C10 witness: a code and its expiry were set on a document and a successful
\* verification has cleared both.
C10_Witness ==
    \E i \in 1..Len(users) :
        /\ users[i].issue > 0 /\ accepted[users[i].issue] >= 1
        /\ users[i].verified
        /\ users[i].otp = None /\ users[i].otp_expires = NoTime

(***************************************************************************)
(* User.add_reminder, User.delete_reminder                                 *)
(***************************************************************************)
\* $push on a field that may be absent: the array is created
PushReminder(d, r) ==
    [d EXCEPT !.has_reminders = TRUE, !.reminders = Append(@, r)]

\* lines 218-222: one update_one $push
AddReminder(p, email, r) ==
    /\ MayStart(p)
    /\ calls' = calls + 1
    /\ users' = UpdateOne(email, PushReminder(find_by_email(email), r))
    /\ nAdd' = IF FirstIdx(email) # 0 THEN [nAdd EXCEPT ![email] = @ + 1] ELSE nAdd
    /\ Finish(p, "add_reminder", FALSE, "None")
    /\ UNCHANGED <<now, retList, budget, active, accepted, okEmails, nDel>>
    /\ UNCHANGED dbVars

\* line 236 without its lower bound
IndexBelowLen(i, n) == i < n

\* line 236: 0 <= reminder_index < len(reminders)
IndexInRange(i, n) == 0 <= i /\ i < n

\* reminders.pop(i) that drops the last element whatever i is
PopLast(s, i) == SubSeq(s, 1, Len(s) - 1)

\* line 237: the list after reminders.pop(i), i counted from 0
Pop(s, i) == SubSeq(s, 1, i) \o SubSeq(s, i + 2, Len(s))

\* lines 233-237: find_by_email, the checks, and the pop on the local list
DeleteFind(p, email, i) ==
    /\ MayStart(p)
    /\ calls' = calls + 1
    /\ LET user == find_by_email(email) IN
       IF /\ FirstIdx(email) # 0
          /\ user.has_reminders
          /\ IndexInRange(i, Len(user.reminders))
       THEN /\ pc' = [pc EXCEPT ![p] = "delete_update"]
            /\ ret' = ret
            /\ loc' = [loc EXCEPT ![p] = [Loc0 EXCEPT !.op = "delete_reminder",
                          !.email = email, !.idx = i, !.user = user,
                          !.list = Pop(user.reminders, i)]]
       ELSE Finish(p, "delete_reminder", FALSE, "False")
    /\ UNCHANGED <<users, now, retList, budget, active, accepted, okEmails, nAdd, nDel>>
    /\ UNCHANGED dbVars

\* a deletion that pops from the list stored now instead of writing back the
\* list it read
SetRemindersFresh(d, list, i) ==
    [d EXCEPT !.has_reminders = TRUE,
              !.reminders = IF i < Len(@) THEN Pop(@, i) ELSE @]

\* the document update_one of delete_reminder writes: $set reminders to the
\* caller's local list
SetReminders(d, list, i) ==
    [d EXCEPT !.has_reminders = TRUE, !.reminders = list]

\* lines 238-243: update_one $set reminders; return True
DeleteUpdate(p) ==
    /\ p \in active /\ pc[p] = "delete_update"
    /\ users' = UpdateOne(loc[p].email,
                          SetReminders(find_by_email(loc[p].email), loc[p].list,
                                       loc[p].idx))
    /\ nDel' = [nDel EXCEPT ![loc[p].email] = @ + 1]
    /\ Finish(p, "delete_reminder", FALSE, "True")
    /\ UNCHANGED <<now, retList, calls, budget, active, accepted, okEmails, nAdd>>
    /\ UNCHANGED dbVars

Indices == -1..2

NextRem ==
    \/ \E p \in Procs, e \in Emails : CreateFind(p, e, None)
    \/ \E p \in Procs : CreateInsert(p)
    \/ \E p \in Procs, e \in Emails, r \in Reminders : AddReminder(p, e, r)
    \/ \E p \in Procs, e \in Emails, i \in Indices : DeleteFind(p, e, i)
    \/ \E p \in Procs : DeleteUpdate(p)
    \/ \E p \in Procs, op \in ReminderOps : RaiseNotConnected(p, op)

InitRem == InitUsers /\ InitHandle /\ active = Procs /\ budget = MaxRemCalls

\* callers in parallel
SpecRem == InitRem /\ [][NextRem]_vars

InitRemSeq == InitUsers /\ InitHandle /\ active = {"p1"} /\ budget = MaxRemCalls

\* one caller: every call runs from its first step to its return undisturbed
SpecRemSeq == InitRemSeq /\ [][NextRem]_vars

(***************************************************************************)
(* User.add_consultation, User.get_consultations                           *)
(***************************************************************************)
\* line 170: consultation_data['timestamp'] = utcnow()
AddConsStart(p, email, data) ==
    /\ MayStart(p)
    /\ calls' = calls + 1
    /\ loc' = [loc EXCEPT ![p] = [Loc0 EXCEPT !.op = "add_consultation",
                                   !.email = email, !.data = data, !.stamp = now]]
    /\ pc' = [pc EXCEPT ![p] = "cons_push"]
    /\ UNCHANGED <<users, now, ret, retList, budget, active, accepted, okEmails, nAdd, nDel>>
    /\ UNCHANGED dbVars

PushConsultation(d, rec) ==
    [d EXCEPT !.consultations = Append(@, rec)]

\* lines 172-175: update_one $push consultations
AddConsPush(p) ==
    /\ p \in active /\ pc[p] = "cons_push"
    /\ users' = UpdateOne(loc[p].email,
                          PushConsultation(find_by_email(loc[p].email),
                              [data |-> loc[p].data, has_ts |-> TRUE,
                               timestamp |-> loc[p].stamp]))
    /\ Finish(p, "add_consultation", FALSE, "None")
    /\ UNCHANGED <<now, retList, calls, budget, active, accepted, okEmails, nAdd, nDel>>
    /\ UNCHANGED dbVars

\* line 184: x.get('timestamp', datetime.min)
TsKey(rec) == IF rec.has_ts THEN rec.timestamp ELSE DatetimeMin

\* one insertion of list.sort(reverse=True): x goes behind every element whose
\* key is not smaller, so records with equal keys keep their order
InsertDesc(sorted, x) ==
    LET pos == Cardinality({i \in 1..Len(sorted) : TsKey(sorted[i]) >= TsKey(x)})
    IN  SubSeq(sorted, 1, pos) \o <<x>> \o SubSeq(sorted, pos + 1, Len(sorted))

RECURSIVE SortDesc(_)
\* line 184: consultations.sort(key=..., reverse=True)
SortDesc(s) ==
    IF s = <<>> THEN <<>>
    ELSE InsertDesc(SortDesc(SubSeq(s, 1, Len(s) - 1)), s[Len(s)])

\* line 185: consultations[:limit]; a negative limit counts from the end
Slice(s, limit) ==
    IF limit >= 0
    THEN SubSeq(s, 1, Min(limit, Len(s)))
    ELSE SubSeq(s, 1, Max(Len(s) + limit, 0))

\* lines 180-186
GetConsultations(p, email, limit) ==
    /\ MayStart(p)
    /\ calls' = calls + 1
    /\ retList' = [retList EXCEPT ![p] =
                     IF FirstIdx(email) # 0
                     THEN Slice(SortDesc(find_by_email(email).consultations), limit)
                     ELSE <<>>]
    /\ Finish(p, "get_consultations", FALSE, "list")
    /\ UNCHANGED <<users, now, budget, active, accepted, okEmails, nAdd, nDel>>
    /\ UNCHANGED dbVars

Limits == {-1, 0, 1, 2, DefaultLimit}

InitCons == InitUsers /\ InitHandle /\ active = Procs /\ budget = MaxConsCalls

NextCons ==
    \/ \E p \in Procs, e \in Emails : CreateFind(p, e, None)
    \/ \E p \in Procs : CreateInsert(p)
    \/ \E p \in Procs, e \in Emails, d \in ConsData : AddConsStart(p, e, d)
    \/ \E p \in Procs : AddConsPush(p)
    \/ \E p \in Procs, e \in Emails, l \in Limits : GetConsultations(p, e, l)
    \/ \E p \in Procs, op \in ConsultationOps : RaiseNotConnected(p, op)
    \/ Tick

SpecCons == InitCons /\ [][NextCons]_vars

(***************************************************************************)
(* Claims about get_consultations (SpecCons)                               *)
(***************************************************************************)
\* C8: get_consultations(email, limit) on a user with n consultations returns
\* min(limit, n) records (none for a limit below 1), never more than limit,
\* the ones with the latest timestamps, in descending timestamp order.
C8_LatestAtMostLimit ==
    [][\A p \in Procs, e \in Emails, l \in Limits :
        GetConsultations(p, e, l) =>
            LET cons == find_by_email(e).consultations
                r == retList'[p]
                rest == SubSeq(SortDesc(cons), Len(r) + 1, Len(cons))
            IN  /\ Len(r) <= Max(l, 0)
                /\ Len(r) = Min(Max(l, 0), Len(cons))
                /\ \A i, j \in 1..Len(r) : i < j => TsKey(r[i]) >= TsKey(r[j])
                /\ \A i \in 1..Len(r), j \in 1..Len(rest) : TsKey(r[i]) >= TsKey(rest[j])
      ]_vars

(***************************************************************************)
(* Claims about add_reminder and delete_reminder                           *)
(***************************************************************************)
\* the reminders the first document of email e holds
Stored(e) == find_by_email(e).reminders

\* new is old without the element at position k (counted from 0), the others
\* in their order
RemovedAt(old, new, k) ==
    /\ Len(new) = Len(old) - 1
    /\ \A j \in 1..Len(new) : new[j] = IF j <= k THEN old[j] ELSE old[j + 1]

\* C5 (one caller, SpecRemSeq): delete_reminder(email, i) returns False and
\* changes nothing when the user or the reminders field is absent or i is
\* outside 0..n-1; otherwise it returns True and the stored sequence becomes
\* the old one without the element at position i.
C5_DeleteReminderContract ==
    [][\A p \in Procs :
        /\ \A e \in Emails, i \in Indices :
             LET user == find_by_email(e)
                 valid == /\ FirstIdx(e) # 0 /\ user.has_reminders
                          /\ 0 <= i /\ i < Len(user.reminders)
             IN  DeleteFind(p, e, i) =>
                    /\ users' = users
                    /\ IF valid
                       THEN pc'[p] = "delete_update"
                       ELSE pc'[p] = "idle" /\ ret'[p] = "False"
        /\ (pc[p] = "delete_update" /\ pc'[p] = "idle") =>
             LET e == loc[p].email IN
             /\ ret'[p] = "True"
             /\ RemovedAt(Stored(e), users'[FirstIdx(e)].reminders, loc[p].idx)
             /\ users' = [users EXCEPT ![FirstIdx(e)].reminders =
                                            users'[FirstIdx(e)].reminders]
      ]_vars

\* C5 witness: a deletion at a valid index has returned True and left a
\* non-empty sequence behind; no reminder was lost or duplicated.
C5_Witness ==
    /\ active = {"p1"}
    /\ pc["p1"] = "idle" /\ loc["p1"].op = "delete_reminder" /\ ret["p1"] = "True"
    /\ nDel["a"] >= 1
    /\ Len(Stored("a")) >= 1
    /\ Len(Stored("a")) = nAdd["a"] - nDel["a"]

\* C9: delete_reminder writes back the list it read minus the element, whatever
\* the document holds by then, so a parallel add_reminder or delete_reminder
\* between its read and its write is lost.
C9_DeleteWritesBackStaleList ==
    [][\A p \in Procs :
        (pc[p] = "delete_update" /\ pc'[p] = "idle") =>
            /\ ret'[p] = "True"
            /\ RemovedAt(loc[p].user.reminders,
                         users'[FirstIdx(loc[p].email)].reminders, loc[p].idx)
      ]_vars

\* C9 witness: every call has returned, a delete_reminder on "a" returned True,
\* and the sequence stored for "a" is not as long as its additions minus its
\* deletions: the effect of one call is missing.
C9_Witness ==
    /\ \A p \in Procs : pc[p] = "idle"
    /\ \E p \in Procs : loc[p].op = "delete_reminder" /\ ret[p] = "True"
    /\ FirstIdx("a") # 0
    /\ nDel["a"] >= 1
    /\ Len(Stored("a")) # nAdd["a"] - nDel["a"]

(***************************************************************************)
(* Database: the singleton handle                                          *)
(***************************************************************************)
CollectionNames == {"users", "other"}

\* the except branch, lines 38-42
ConnectionFailed(obj) == [obj EXCEPT !.client = None, !.db = None]

\* a constructor without the test of line 15: a new object and a new
\* connection attempt on every call
NewAlways ==
    /\ dbpc = "idle" /\ nNew < MaxConstructions
    /\ nNew' = nNew + 1
    /\ objects' = Append(objects, [client |-> "unset", db |-> "unset"])
    /\ instance' = Len(objects) + 1
    /\ dbpc' = "connect"
    /\ UNCHANGED <<attempts, returned, getRet, nGet>>
    /\ UNCHANGED userVars

\* lines 15-16: Database() is called; the object is allocated if _instance is None
New ==
    /\ dbpc = "idle" /\ nNew < MaxConstructions
    /\ nNew' = nNew + 1
    /\ IF instance = 0
       THEN /\ objects' = Append(objects, [client |-> "unset", db |-> "unset"])
            /\ instance' = Len(objects) + 1
            /\ dbpc' = "connect"
       ELSE /\ dbpc' = "return"
            /\ UNCHANGED <<objects, instance>>
    /\ UNCHANGED <<attempts, returned, getRet, nGet>>
    /\ UNCHANGED userVars

\* lines 24-31: MongoClient(...) returns a client
ConnectOk ==
    /\ dbpc = "connect"
    /\ objects' = [objects EXCEPT ![instance].client = "client"]
    /\ dbpc' = "ping"
    /\ UNCHANGED <<instance, attempts, returned, nNew, getRet, nGet>>
    /\ UNCHANGED userVars

\* lines 24-31 raise: the except branch runs
ConnectFail ==
    /\ dbpc = "connect"
    /\ objects' = [objects EXCEPT ![instance] = ConnectionFailed(@)]
    /\ attempts' = Append(attempts, [n |-> nNew, result |-> "failed"])
    /\ dbpc' = "return"
    /\ UNCHANGED <<instance, returned, nNew, getRet, nGet>>
    /\ UNCHANGED userVars

\* lines 34-36: the ping is answered, db is set
PingOk ==
    /\ dbpc = "ping"
    /\ objects' = [objects EXCEPT ![instance].db = "db"]
    /\ attempts' = Append(attempts, [n |-> nNew, result |-> "ok"])
    /\ dbpc' = "return"
    /\ UNCHANGED <<instance, returned, nNew, getRet, nGet>>
    /\ UNCHANGED userVars

\* line 34 raises: the except branch runs
PingFail ==
    /\ dbpc = "ping"
    /\ objects' = [objects EXCEPT ![instance] = ConnectionFailed(@)]
    /\ attempts' = Append(attempts, [n |-> nNew, result |-> "failed"])
    /\ dbpc' = "return"
    /\ UNCHANGED <<instance, returned, nNew, getRet, nGet>>
    /\ UNCHANGED userVars

\* line 44: return cls._instance
Return ==
    /\ dbpc = "return"
    /\ returned' = returned \cup {instance}
    /\ dbpc' = "idle"
    /\ UNCHANGED <<objects, instance, attempts, nNew, getRet, nGet>>
    /\ UNCHANGED userVars

\* lines 48-50, on an object some Database() call returned
GetCollection(h, name) ==
    /\ dbpc = "idle" /\ h \in returned /\ nGet < MaxGets
    /\ nGet' = nGet + 1
    /\ getRet' = IF objects[h].db = None
                 THEN [name |-> name, result |-> "NotConnected"]
                 ELSE IF objects[h].db = "unset"
                      THEN [name |-> name, result |-> "AttributeError"]
                      ELSE [name |-> name, result |-> "collection"]
    /\ UNCHANGED <<objects, instance, dbpc, attempts, returned, nNew>>
    /\ UNCHANGED userVars

InitDb ==
    /\ InitUsers
    /\ active = {}
    /\ budget = 0
    /\ objects = <<>>
    /\ instance = 0
    /\ dbpc = "idle"
    /\ attempts = <<>>
    /\ returned = {}
    /\ nNew = 0
    /\ getRet = [name |-> None, result |-> "none"]
    /\ nGet = 0

NextDb ==
    \/ New
    \/ ConnectOk
    \/ ConnectFail
    \/ PingOk
    \/ PingFail
    \/ Return
    \/ \E h \in 1..Len(objects), name \in CollectionNames : GetCollection(h, name)

\* Database() and get_collection called one after the other in one process
SpecDb == InitDb /\ [][NextDb]_vars

(***************************************************************************)
(* Claims about the Database handle (SpecDb)                               *)
(***************************************************************************)
\* C7: the connection is attempted in the first construction only, every
\* construction returns the same instance; after a failed attempt the instance
\* keeps client = None and db = None and every get_collection raises "Database
\* not connected"; after a successful one get_collection never raises it.
C7_SingletonConnectsOnce ==
    /\ Len(attempts) <= 1
    /\ \A k \in 1..Len(attempts) : attempts[k].n = 1
    /\ Cardinality(returned) <= 1
    /\ Len(objects) <= 1
    /\ (Len(attempts) = 1 /\ attempts[1].result = "failed") =>
          /\ objects[instance].client = None
          /\ objects[instance].db = None
          /\ getRet.result \in {"none", "NotConnected"}
    /\ (Len(attempts) = 1 /\ attempts[1].result = "ok") =>
          /\ objects[instance].db = "db"
          /\ getRet.result \in {"none", "collection"}

\* C7 witness: after a failed first attempt, a later construction has returned
\* and a get_collection call has raised the error.
C7_Witness ==
    /\ nNew >= 2 /\ dbpc = "idle"
    /\ Len(attempts) = 1 /\ attempts[1].result = "failed"
    /\ getRet.result = "NotConnected"

====
